---------------------------- MODULE Spec2Model ----------------------------
(***************************************************************************)
(* Swiss holiday resolution and bridge-day optimisation (holidays_ch.py).  *)
(*                                                                         *)
(* Calendar dates are proleptic Gregorian ordinals (day 1 = 0001-01-01),   *)
(* the representation datetime.date itself uses: date(y, m, d) builds the  *)
(* ordinal, timedelta arithmetic is integer addition on it, and weekday()  *)
(* is (ordinal + 6) % 7 with 0 = Monday .. 6 = Sunday.                     *)
(***************************************************************************)
EXTENDS Integers, Sequences, FiniteSets, TLC

VARIABLES
    pc,                 \* position of the running call
    op,                 \* entry point being executed
    canton, year,       \* arguments of the running call
    entries,            \* get_holidays: the list the loop of line 351 walks
    k,                  \* get_holidays: index into entries
    holidays,           \* get_holidays: the list being built / returned
    j,                  \* calculate_bridge_days: index into holidays
    holiday_dates,      \* calculate_bridge_days: {h["date"] for h in holidays}
    recommendations,    \* calculate_bridge_days: the list being built
    seen_bridge_dates,  \* calculate_bridge_days: claimed bridge dates
    result,             \* what the last finished call handed to its caller
    log                 \* caller's record of the outputs of its earlier calls
                        \* with these arguments: << [op, result], ... >>

vars == << pc, op, canton, year, entries, k, holidays, j, holiday_dates,
           recommendations, seen_bridge_dates, result, log >>

-----------------------------------------------------------------------------
(* Bounds of the model                                                     *)

\* years offered below and above VALID_YEAR_RANGE
YearMargin == 1
\* calls a caller makes in a row with the same (canton, year)
MaxCalls == 2
\* arbitrary resolved lists (SpecAny): length and width of the date window
MaxAnyHolidays == 4
AnyWindow == 9
\* arbitrary catalog lists (SpecTies): length and number of January days
MaxTieEntries == 3
TieDays == 3

-----------------------------------------------------------------------------
(* datetime.date                                                           *)

IsLeap(y) == y % 4 = 0 /\ (y % 100 # 0 \/ y % 400 = 0)

DaysBeforeYear(y) ==
    LET p == y - 1 IN p * 365 + p \div 4 - p \div 100 + p \div 400

\* a faulty variant: no leap day after February
DaysBeforeMonth_no_leap(y, m) ==
    << 0, 31, 59, 90, 120, 151, 181, 212, 243, 273, 304, 334 >>[m]

DaysBeforeMonth(y, m) ==
    << 0, 31, 59, 90, 120, 151, 181, 212, 243, 273, 304, 334 >>[m]
        + (IF m > 2 /\ IsLeap(y) THEN 1 ELSE 0)

DaysInMonth(y, m) ==
    IF m = 2 /\ IsLeap(y) THEN 29
    ELSE << 31, 28, 31, 30, 31, 30, 31, 31, 30, 31, 30, 31 >>[m]

\* date(year, month, day) raises ValueError unless this holds
ValidDate(y, m, d) == m \in 1..12 /\ d \in 1..DaysInMonth(y, m)

\* date(year, month, day)
date(y, m, d) == DaysBeforeYear(y) + DaysBeforeMonth(y, m) + d

\* d.weekday(): 0 = Monday .. 6 = Sunday
weekday(d) == (d + 6) % 7

WEEKDAYS_DE ==
    << "Montag", "Dienstag", "Mittwoch", "Donnerstag",
       "Freitag", "Samstag", "Sonntag" >>

-----------------------------------------------------------------------------
(* Movable-date rules                                                      *)

\* a faulty variant: the constant 32 of the weekday correction taken as 31
get_easter_off_by_one(y) ==
    LET a == y % 19
        b == y \div 100
        c == y % 100
        d == b \div 4
        e == b % 4
        f == (b + 8) \div 25
        g == (b - f + 1) \div 3
        h == (19 * a + b - d - g + 15) % 30
        i == c \div 4
        kk == c % 4
        l == (31 + 2 * e + 2 * i - h - kk) % 7
        m == (a + 11 * h + 22 * l) \div 451
        n == h + l - 7 * m + 114
        month == n \div 31
        day == n % 31
    IN  date(y, month, day + 1)

\* lines 54-63: the month and day handed to date() in line 64
easter_month_day(y) ==
    LET a == y % 19
        b == y \div 100
        c == y % 100
        d == b \div 4
        e == b % 4
        f == (b + 8) \div 25
        g == (b - f + 1) \div 3
        h == (19 * a + b - d - g + 15) % 30
        i == c \div 4
        kk == c % 4
        l == (32 + 2 * e + 2 * i - h - kk) % 7
        m == (a + 11 * h + 22 * l) \div 451
        n == h + l - 7 * m + 114
        month == n \div 31
        day == n % 31
    IN  [month |-> month, day |-> day + 1]

get_easter(y) ==
    LET md == easter_month_day(y) IN date(y, md.month, md.day)

_bettag(y) ==
    LET sep1 == date(y, 9, 1)
        offset == (6 - weekday(sep1)) % 7
        first_sunday == sep1 + offset
    IN  first_sunday + 14

_bettag_monday(y) == _bettag(y) + 1

\* a faulty variant: three days after the first Sunday
_jeune_genevois_plus3(y) ==
    LET sep1 == date(y, 9, 1)
        offset == (6 - weekday(sep1)) % 7
        first_sunday == sep1 + offset
    IN  first_sunday + 3

_jeune_genevois(y) ==
    LET sep1 == date(y, 9, 1)
        offset == (6 - weekday(sep1)) % 7
        first_sunday == sep1 + offset
    IN  first_sunday + 4

\* a faulty variant: the offset subtracted
_easter_offset_negated(days, y) == get_easter(y) - days

_easter_offset(days, y) == get_easter(y) + days

\* a faulty variant: Friday (4) taken for Thursday (3)
_naefelser_fahrt_friday(y) ==
    LET apr1 == date(y, 4, 1)
        offset == (4 - weekday(apr1)) % 7
    IN  apr1 + offset

_naefelser_fahrt(y) ==
    LET apr1 == date(y, 4, 1)
        offset == (3 - weekday(apr1)) % 7
    IN  apr1 + offset

-----------------------------------------------------------------------------
(* Catalog entries: (name, date_or_factory)                                *)

Fixed(m, d) == [kind |-> "fixed", a |-> m, b |-> d]
Easter(n) == [kind |-> "easter", a |-> n, b |-> 0]
Movable(fn) == [kind |-> fn, a |-> 0, b |-> 0]
Entry(n, s) == [name |-> n, spec |-> s]

_NEUJAHR == Entry("Neujahr", Fixed(1, 1))
_BERCHTOLDSTAG == Entry("Berchtoldstag", Fixed(1, 2))
_HEILIGE_DREI == Entry("Heilige Drei Koenige", Fixed(1, 6))
_JOSEFSTAG == Entry("Josefstag", Fixed(3, 19))
_KARFREITAG == Entry("Karfreitag", Easter(-2))
_OSTERSONNTAG == Entry("Ostersonntag", Easter(0))
_OSTERMONTAG == Entry("Ostermontag", Easter(1))
_TAG_DER_ARBEIT == Entry("Tag der Arbeit", Fixed(5, 1))

\* a faulty variant: Ascension counted as 40 days after Easter Sunday
_AUFFAHRT_plus40 == Entry("Auffahrt (Christi Himmelfahrt)", Easter(40))

_AUFFAHRT == Entry("Auffahrt (Christi Himmelfahrt)", Easter(39))

_PFINGSTSONNTAG == Entry("Pfingstsonntag", Easter(49))
_PFINGSTMONTAG == Entry("Pfingstmontag", Easter(50))
_FRONLEICHNAM == Entry("Fronleichnam", Easter(60))
_BUNDESFEIER == Entry("Bundesfeiertag", Fixed(8, 1))
_MARIA_HIMMELFAHRT == Entry("Mariae Himmelfahrt", Fixed(8, 15))
_ALLERHEILIGEN == Entry("Allerheiligen", Fixed(11, 1))
_MARIA_EMPFAENGNIS == Entry("Mariae Empfaengnis", Fixed(12, 8))
_WEIHNACHTEN == Entry("Weihnachten", Fixed(12, 25))
_STEPHANSTAG == Entry("Stephanstag", Fixed(12, 26))
_BETTAG_MO == Entry("Bettagsmontag", Movable("_bettag_monday"))
_NAEFELSER_FAHRT == Entry("Naefelser Fahrt", Movable("_naefelser_fahrt"))
_BRUDER_KLAUS == Entry("Bruder Klaus", Fixed(9, 25))

\* a faulty variant: a day June does not have
_SAN_PIETRO_june31 == Entry("San Pietro e Paolo", Fixed(6, 31))

_SAN_PIETRO == Entry("San Pietro e Paolo", Fixed(6, 29))

_INSTAURATION == Entry("Instauration de la Republique", Fixed(3, 1))
_JEUNE_GENEVOIS == Entry("Jeune genevois", Movable("_jeune_genevois"))
_RESTAURATION == Entry("Restauration de la Republique", Fixed(12, 31))
_PLEBISCITE == Entry("Plebiscite jurassien", Fixed(6, 23))

-----------------------------------------------------------------------------
(* Static tables.  Names are spelled in ASCII (ue, ae, oe, e for the       *)
(* accented letters of the source strings).                                *)

CANTONS == [
    AG |-> "Aargau",
    AI |-> "Appenzell Innerrhoden",
    AR |-> "Appenzell Ausserrhoden",
    BE |-> "Bern",
    BL |-> "Basel-Landschaft",
    BS |-> "Basel-Stadt",
    FR |-> "Freiburg",
    GE |-> "Genf",
    GL |-> "Glarus",
    GR |-> "Graubuenden",
    JU |-> "Jura",
    LU |-> "Luzern",
    NE |-> "Neuenburg",
    NW |-> "Nidwalden",
    OW |-> "Obwalden",
    SG |-> "St. Gallen",
    SH |-> "Schaffhausen",
    SO |-> "Solothurn",
    SZ |-> "Schwyz",
    TG |-> "Thurgau",
    TI |-> "Tessin",
    UR |-> "Uri",
    VD |-> "Waadt",
    VS |-> "Wallis",
    ZG |-> "Zug",
    ZH |-> "Zuerich" ]

VALID_YEAR_RANGE == << 2020, 2035 >>

CANTON_HOLIDAYS == [
    ZH |-> << _NEUJAHR, _BERCHTOLDSTAG, _KARFREITAG, _OSTERSONNTAG,
              _OSTERMONTAG, _TAG_DER_ARBEIT, _AUFFAHRT, _PFINGSTSONNTAG,
              _PFINGSTMONTAG, _BUNDESFEIER, _BETTAG_MO, _WEIHNACHTEN,
              _STEPHANSTAG >>,
    BE |-> << _NEUJAHR, _BERCHTOLDSTAG, _KARFREITAG, _OSTERSONNTAG,
              _OSTERMONTAG, _AUFFAHRT, _PFINGSTSONNTAG, _PFINGSTMONTAG,
              _BUNDESFEIER, _BETTAG_MO, _WEIHNACHTEN, _STEPHANSTAG >>,
    LU |-> << _NEUJAHR, _BERCHTOLDSTAG, _HEILIGE_DREI, _JOSEFSTAG,
              _KARFREITAG, _OSTERSONNTAG, _OSTERMONTAG, _AUFFAHRT,
              _PFINGSTSONNTAG, _PFINGSTMONTAG, _FRONLEICHNAM, _BUNDESFEIER,
              _MARIA_HIMMELFAHRT, _ALLERHEILIGEN, _MARIA_EMPFAENGNIS,
              _WEIHNACHTEN, _STEPHANSTAG >>,
    UR |-> << _NEUJAHR, _HEILIGE_DREI, _JOSEFSTAG, _KARFREITAG,
              _OSTERSONNTAG, _OSTERMONTAG, _AUFFAHRT, _PFINGSTSONNTAG,
              _PFINGSTMONTAG, _FRONLEICHNAM, _BUNDESFEIER,
              _MARIA_HIMMELFAHRT, _ALLERHEILIGEN, _MARIA_EMPFAENGNIS,
              _WEIHNACHTEN, _STEPHANSTAG >>,
    SZ |-> << _NEUJAHR, _HEILIGE_DREI, _JOSEFSTAG, _KARFREITAG,
              _OSTERSONNTAG, _OSTERMONTAG, _AUFFAHRT, _PFINGSTSONNTAG,
              _PFINGSTMONTAG, _FRONLEICHNAM, _BUNDESFEIER,
              _MARIA_HIMMELFAHRT, _ALLERHEILIGEN, _MARIA_EMPFAENGNIS,
              _WEIHNACHTEN, _STEPHANSTAG >>,
    OW |-> << _NEUJAHR, _BERCHTOLDSTAG, _HEILIGE_DREI, _JOSEFSTAG,
              _KARFREITAG, _OSTERSONNTAG, _OSTERMONTAG, _AUFFAHRT,
              _PFINGSTSONNTAG, _PFINGSTMONTAG, _FRONLEICHNAM, _BRUDER_KLAUS,
              _BUNDESFEIER, _MARIA_HIMMELFAHRT, _ALLERHEILIGEN,
              _MARIA_EMPFAENGNIS, _WEIHNACHTEN, _STEPHANSTAG >>,
    NW |-> << _NEUJAHR, _HEILIGE_DREI, _JOSEFSTAG, _KARFREITAG,
              _OSTERSONNTAG, _OSTERMONTAG, _AUFFAHRT, _PFINGSTSONNTAG,
              _PFINGSTMONTAG, _FRONLEICHNAM, _BUNDESFEIER,
              _MARIA_HIMMELFAHRT, _ALLERHEILIGEN, _MARIA_EMPFAENGNIS,
              _WEIHNACHTEN, _STEPHANSTAG >>,
    GL |-> << _NEUJAHR, _BERCHTOLDSTAG, _KARFREITAG, _OSTERSONNTAG,
              _OSTERMONTAG, _NAEFELSER_FAHRT, _AUFFAHRT, _PFINGSTSONNTAG,
              _PFINGSTMONTAG, _BUNDESFEIER, _ALLERHEILIGEN, _WEIHNACHTEN,
              _STEPHANSTAG >>,
    ZG |-> << _NEUJAHR, _BERCHTOLDSTAG, _HEILIGE_DREI, _JOSEFSTAG,
              _KARFREITAG, _OSTERSONNTAG, _OSTERMONTAG, _AUFFAHRT,
              _PFINGSTSONNTAG, _PFINGSTMONTAG, _FRONLEICHNAM, _BUNDESFEIER,
              _MARIA_HIMMELFAHRT, _ALLERHEILIGEN, _MARIA_EMPFAENGNIS,
              _WEIHNACHTEN, _STEPHANSTAG >>,
    FR |-> << _NEUJAHR, _BERCHTOLDSTAG, _KARFREITAG, _OSTERSONNTAG,
              _OSTERMONTAG, _AUFFAHRT, _PFINGSTSONNTAG, _PFINGSTMONTAG,
              _FRONLEICHNAM, _BUNDESFEIER, _MARIA_HIMMELFAHRT,
              _ALLERHEILIGEN, _MARIA_EMPFAENGNIS, _WEIHNACHTEN, _STEPHANSTAG
              >>,
    SO |-> << _NEUJAHR, _BERCHTOLDSTAG, _KARFREITAG, _OSTERSONNTAG,
              _OSTERMONTAG, _TAG_DER_ARBEIT, _AUFFAHRT, _PFINGSTSONNTAG,
              _PFINGSTMONTAG, _FRONLEICHNAM, _BUNDESFEIER,
              _MARIA_HIMMELFAHRT, _ALLERHEILIGEN, _WEIHNACHTEN, _STEPHANSTAG
              >>,
    BS |-> << _NEUJAHR, _KARFREITAG, _OSTERSONNTAG, _OSTERMONTAG,
              _TAG_DER_ARBEIT, _AUFFAHRT, _PFINGSTSONNTAG, _PFINGSTMONTAG,
              _BUNDESFEIER, _WEIHNACHTEN, _STEPHANSTAG >>,
    BL |-> << _NEUJAHR, _KARFREITAG, _OSTERSONNTAG, _OSTERMONTAG,
              _TAG_DER_ARBEIT, _AUFFAHRT, _PFINGSTSONNTAG, _PFINGSTMONTAG,
              _BUNDESFEIER, _WEIHNACHTEN, _STEPHANSTAG >>,
    SH |-> << _NEUJAHR, _BERCHTOLDSTAG, _KARFREITAG, _OSTERSONNTAG,
              _OSTERMONTAG, _TAG_DER_ARBEIT, _AUFFAHRT, _PFINGSTSONNTAG,
              _PFINGSTMONTAG, _BUNDESFEIER, _BETTAG_MO, _WEIHNACHTEN,
              _STEPHANSTAG >>,
    AR |-> << _NEUJAHR, _BERCHTOLDSTAG, _KARFREITAG, _OSTERSONNTAG,
              _OSTERMONTAG, _AUFFAHRT, _PFINGSTSONNTAG, _PFINGSTMONTAG,
              _BUNDESFEIER, _BETTAG_MO, _WEIHNACHTEN, _STEPHANSTAG >>,
    AI |-> << _NEUJAHR, _HEILIGE_DREI, _JOSEFSTAG, _KARFREITAG,
              _OSTERSONNTAG, _OSTERMONTAG, _AUFFAHRT, _PFINGSTSONNTAG,
              _PFINGSTMONTAG, _FRONLEICHNAM, _BUNDESFEIER,
              _MARIA_HIMMELFAHRT, _ALLERHEILIGEN, _MARIA_EMPFAENGNIS,
              _WEIHNACHTEN, _STEPHANSTAG >>,
    SG |-> << _NEUJAHR, _KARFREITAG, _OSTERSONNTAG, _OSTERMONTAG, _AUFFAHRT,
              _PFINGSTSONNTAG, _PFINGSTMONTAG, _BUNDESFEIER, _ALLERHEILIGEN,
              _WEIHNACHTEN, _STEPHANSTAG >>,
    GR |-> << _NEUJAHR, _BERCHTOLDSTAG, _HEILIGE_DREI, _JOSEFSTAG,
              _KARFREITAG, _OSTERSONNTAG, _OSTERMONTAG, _AUFFAHRT,
              _PFINGSTSONNTAG, _PFINGSTMONTAG, _FRONLEICHNAM, _BUNDESFEIER,
              _MARIA_HIMMELFAHRT, _ALLERHEILIGEN, _MARIA_EMPFAENGNIS,
              _WEIHNACHTEN, _STEPHANSTAG >>,
    AG |-> << _NEUJAHR, _BERCHTOLDSTAG, _KARFREITAG, _OSTERSONNTAG,
              _OSTERMONTAG, _AUFFAHRT, _PFINGSTSONNTAG, _PFINGSTMONTAG,
              _FRONLEICHNAM, _BUNDESFEIER, _MARIA_HIMMELFAHRT,
              _ALLERHEILIGEN, _WEIHNACHTEN, _STEPHANSTAG >>,
    TG |-> << _NEUJAHR, _BERCHTOLDSTAG, _KARFREITAG, _OSTERSONNTAG,
              _OSTERMONTAG, _TAG_DER_ARBEIT, _AUFFAHRT, _PFINGSTSONNTAG,
              _PFINGSTMONTAG, _BUNDESFEIER, _BETTAG_MO, _WEIHNACHTEN,
              _STEPHANSTAG >>,
    TI |-> << _NEUJAHR, _HEILIGE_DREI, _JOSEFSTAG, _OSTERSONNTAG,
              _OSTERMONTAG, _TAG_DER_ARBEIT, _AUFFAHRT, _PFINGSTSONNTAG,
              _PFINGSTMONTAG, _FRONLEICHNAM, _SAN_PIETRO, _BUNDESFEIER,
              _MARIA_HIMMELFAHRT, _ALLERHEILIGEN, _MARIA_EMPFAENGNIS,
              _WEIHNACHTEN, _STEPHANSTAG >>,
    VD |-> << _NEUJAHR, _BERCHTOLDSTAG, _KARFREITAG, _OSTERSONNTAG,
              _OSTERMONTAG, _AUFFAHRT, _PFINGSTSONNTAG, _PFINGSTMONTAG,
              _BUNDESFEIER, _BETTAG_MO, _WEIHNACHTEN >>,
    VS |-> << _NEUJAHR, _JOSEFSTAG, _KARFREITAG, _OSTERSONNTAG,
              _OSTERMONTAG, _AUFFAHRT, _PFINGSTSONNTAG, _PFINGSTMONTAG,
              _FRONLEICHNAM, _BUNDESFEIER, _MARIA_HIMMELFAHRT,
              _ALLERHEILIGEN, _MARIA_EMPFAENGNIS, _WEIHNACHTEN, _STEPHANSTAG
              >>,
    NE |-> << _NEUJAHR, _BERCHTOLDSTAG, _INSTAURATION, _KARFREITAG,
              _OSTERSONNTAG, _OSTERMONTAG, _TAG_DER_ARBEIT, _AUFFAHRT,
              _PFINGSTSONNTAG, _PFINGSTMONTAG, _FRONLEICHNAM, _BUNDESFEIER,
              _BETTAG_MO, _WEIHNACHTEN >>,
    GE |-> << _NEUJAHR, _KARFREITAG, _OSTERSONNTAG, _OSTERMONTAG, _AUFFAHRT,
              _PFINGSTSONNTAG, _PFINGSTMONTAG, _BUNDESFEIER,
              _JEUNE_GENEVOIS, _RESTAURATION, _WEIHNACHTEN >>,
    JU |-> << _NEUJAHR, _BERCHTOLDSTAG, _KARFREITAG, _OSTERSONNTAG,
              _OSTERMONTAG, _TAG_DER_ARBEIT, _AUFFAHRT, _PFINGSTSONNTAG,
              _PFINGSTMONTAG, _FRONLEICHNAM, _BUNDESFEIER, _PLEBISCITE,
              _MARIA_HIMMELFAHRT, _ALLERHEILIGEN, _WEIHNACHTEN >> ]

-----------------------------------------------------------------------------
(* Helpers                                                                 *)

Front(s) == SubSeq(s, 1, Len(s) - 1)
Last(s) == s[Len(s)]

RECURSIVE InsertByKey(_, _, _)
\* place x behind every element whose key is <= its own
InsertByKey(s, x, f) ==
    IF s = << >> THEN << x >>
    ELSE IF Last(s)[f] <= x[f] THEN Append(s, x)
    ELSE Append(InsertByKey(Front(s), x, f), Last(s))

RECURSIVE StableSort(_, _)
\* list.sort(key=lambda e: e[f]): ascending and stable
StableSort(s, f) ==
    IF s = << >> THEN << >>
    ELSE InsertByKey(StableSort(Front(s), f), Last(s), f)

-----------------------------------------------------------------------------
(* validate_inputs: the message is modelled by the values it interpolates  *)

NoError ==
    [kind |-> "None", canton_shown |-> << >>, codes_shown |-> {},
     years_shown |-> << >>]

\* a faulty variant: the upper year bound compared with >=
validate_inputs_exclusive(c, y) ==
    IF c \notin DOMAIN CANTONS
    THEN [kind |-> "canton", canton_shown |-> << c >>,
          codes_shown |-> DOMAIN CANTONS, years_shown |-> << >>]
    ELSE IF y < VALID_YEAR_RANGE[1] \/ y >= VALID_YEAR_RANGE[2]
    THEN [kind |-> "year", canton_shown |-> << >>, codes_shown |-> {},
          years_shown |-> << VALID_YEAR_RANGE[1], VALID_YEAR_RANGE[2] >>]
    ELSE NoError

validate_inputs(c, y) ==
    IF c \notin DOMAIN CANTONS
    THEN [kind |-> "canton", canton_shown |-> << c >>,
          codes_shown |-> DOMAIN CANTONS, years_shown |-> << >>]
    ELSE IF y < VALID_YEAR_RANGE[1] \/ y > VALID_YEAR_RANGE[2]
    THEN [kind |-> "year", canton_shown |-> << >>, codes_shown |-> {},
          years_shown |-> << VALID_YEAR_RANGE[1], VALID_YEAR_RANGE[2] >>]
    ELSE NoError

-----------------------------------------------------------------------------
(* get_holidays                                                            *)

\* the date of one catalog entry: fixed (month, day) or callable(year)
ResolveSpec(s, y) ==
    CASE s.kind = "fixed" -> date(y, s.a, s.b)
      [] s.kind = "easter" -> _easter_offset(s.a, y)
      [] s.kind = "_bettag_monday" -> _bettag_monday(y)
      [] s.kind = "_jeune_genevois" -> _jeune_genevois(y)
      [] s.kind = "_naefelser_fahrt" -> _naefelser_fahrt(y)

\* whether every date() call made for the entry succeeds
Resolvable(s, y) ==
    CASE s.kind = "fixed" -> ValidDate(y, s.a, s.b)
      [] s.kind = "easter" ->
            ValidDate(y, easter_month_day(y).month, easter_month_day(y).day)
      [] OTHER -> TRUE

\* a faulty variant: the weekday name looked up Sunday-first
Holiday_sunday_first(n, d) ==
    [name |-> n, date |-> d,
     weekday |-> << "Sonntag", "Montag", "Dienstag", "Mittwoch",
                    "Donnerstag", "Freitag", "Samstag" >>[((d + 6) % 7) + 1]]

Holiday(n, d) == [name |-> n, date |-> d, weekday |-> WEEKDAYS_DE[weekday(d) + 1]]

\* a faulty variant: an unstable sort, equal dates come out reversed
SortHolidays_unstable(hs) ==
    StableSort([n \in 1..Len(hs) |-> hs[Len(hs) + 1 - n]], "date")

\* a faulty variant: the list is returned in catalog order
SortHolidays_unsorted(hs) == hs

SortHolidays(hs) == StableSort(hs, "date")

NoResult == [kind |-> "none", error |-> NoError, value |-> << >>]

\* raise ValueError(error), and the ValueError date() itself raises
Raised(e) == [kind |-> "ValueError", error |-> e, value |-> << >>]

DateError ==
    [kind |-> "date", canton_shown |-> << >>, codes_shown |-> {},
     years_shown |-> << >>]

\* CANTON_HOLIDAYS[canton] for a key the table does not have
RaisedKeyError == [kind |-> "KeyError", error |-> NoError, value |-> << >>]

Returned(what, v) == [kind |-> what, error |-> NoError, value |-> v]

Ops == {"get_holidays", "calculate_bridge_days"}

\* inputs offered to the entry points
UnknownCantons == {"XX"}
CantonInputs == DOMAIN CANTONS \cup UnknownCantons
YearInputs ==
    (VALID_YEAR_RANGE[1] - YearMargin)..(VALID_YEAR_RANGE[2] + YearMargin)

\* a caller invokes an entry point; nothing of the callee exists yet
Call(o, c, y) ==
    /\ pc = "idle"
    /\ pc' = "validate"
    /\ op' = o
    /\ canton' = c
    /\ year' = y
    /\ result' = NoResult
    /\ UNCHANGED << entries, k, holidays, j, holiday_dates, recommendations,
                    seen_bridge_dates, log >>

\* lines 341-351: validate, raise ValueError or start with an empty list
\* and look up the canton's catalog list
Validate ==
    /\ pc = "validate"
    /\ LET error == validate_inputs(canton, year) IN
         IF error # NoError
         THEN /\ pc' = "done"
              /\ result' = Raised(error)
              /\ UNCHANGED << entries, k, holidays >>
         ELSE IF canton \notin DOMAIN CANTON_HOLIDAYS
         THEN /\ pc' = "done"
              /\ result' = RaisedKeyError
              /\ holidays' = << >>
              /\ UNCHANGED << entries, k >>
         ELSE /\ pc' = "resolve"
              /\ holidays' = << >>
              /\ entries' = CANTON_HOLIDAYS[canton]
              /\ k' = 1
              /\ UNCHANGED result
    /\ UNCHANGED << op, canton, year, j, holiday_dates, recommendations,
                    seen_bridge_dates, log >>

\* lines 351-362: one iteration of the loop over CANTON_HOLIDAYS[canton];
\* date() raises ValueError for a day the month does not have
ResolveEntry ==
    /\ pc = "resolve"
    /\ k <= Len(entries)
    /\ LET e == entries[k] IN
         IF Resolvable(e.spec, year)
         THEN /\ holidays' = Append(holidays,
                                   Holiday(e.name, ResolveSpec(e.spec, year)))
              /\ k' = k + 1
              /\ UNCHANGED << pc, result >>
         ELSE /\ pc' = "done"
              /\ result' = Raised(DateError)
              /\ UNCHANGED << holidays, k >>
    /\ UNCHANGED << op, canton, year, entries, j, holiday_dates,
                    recommendations, seen_bridge_dates, log >>

\* lines 364-365: sort by date and return (to the caller, or to line 383)
ResolveReturn ==
    /\ pc = "resolve"
    /\ k > Len(entries)
    /\ holidays' = SortHolidays(holidays)
    /\ IF op = "get_holidays"
       THEN /\ pc' = "done"
            /\ result' = Returned("holidays", holidays')
       ELSE /\ pc' = "bridge_init"
            /\ UNCHANGED result
    /\ UNCHANGED << op, canton, year, entries, k, j, holiday_dates, recommendations,
                    seen_bridge_dates, log >>

-----------------------------------------------------------------------------
(* calculate_bridge_days                                                   *)

\* line 384
HolidayDates(hs) == {hs[n].date : n \in 1..Len(hs)}

\* a faulty variant: one set shared by all calls
NewSeenBridgeDates_shared(earlier) == earlier

\* line 392: seen_bridge_dates = set(), whatever an earlier call left
NewSeenBridgeDates(earlier) == {}

\* a faulty variant: Friday (4) taken for Thursday
Branch_friday(wd) ==
    CASE wd = 1 -> "tuesday"
      [] wd = 4 -> "thursday"
      [] wd = 2 -> "wednesday"
      [] OTHER -> "none"

\* lines 398, 415, 432: which branch a weekday takes
Branch(wd) ==
    CASE wd = 1 -> "tuesday"
      [] wd = 3 -> "thursday"
      [] wd = 2 -> "wednesday"
      [] OTHER -> "none"

\* line 399
TuesdayBridge(d) == d - 1

\* a faulty variant: the Thursday bridge taken on the day before
ThursdayBridge_before(d) == d - 1

\* line 416
ThursdayBridge(d) == d + 1

\* lines 433-434
WednesdayBridges(d) == [before |-> d - 1, before2 |-> d - 2]

\* a faulty variant: the holiday test left out
TuesdayAccepts_ignoringHolidays(bridge, seen, hdates) ==
    bridge \notin seen

\* line 400
TuesdayAccepts(bridge, seen, hdates) ==
    bridge \notin seen /\ bridge \notin hdates

\* a faulty variant: the claimed test left out
ThursdayAccepts_ignoringClaims(bridge, seen, hdates) ==
    bridge \notin hdates

\* line 417
ThursdayAccepts(bridge, seen, hdates) ==
    bridge \notin seen /\ bridge \notin hdates

\* a faulty variant: the claimed test left out
WednesdayAccepts_ignoringClaims(before, before2, seen, hdates) ==
    /\ before \notin hdates
    /\ before2 \notin hdates

\* lines 435-436
WednesdayAccepts(before, before2, seen, hdates) ==
    /\ before \notin hdates
    /\ before2 \notin hdates
    /\ before \notin seen

\* a faulty variant: the bridge date stored as the holiday's date
Recommendation_bridge_as_holiday(h, bridge, label, free) ==
    [holiday_name |-> h.name, holiday_date |-> bridge, bridge_date |-> bridge,
     bridge_weekday |-> label, free_days |-> free]

\* the structured fields of a recommendation; the "recommendation" text is
\* a sentence formatted from these same fields
Recommendation(h, bridge, label, free) ==
    [holiday_name |-> h.name, holiday_date |-> h.date, bridge_date |-> bridge,
     bridge_weekday |-> label, free_days |-> free]

\* a faulty variant: sorted descending (reverse=True)
SortRecommendations_reversed(rs) ==
    LET a == StableSort(rs, "bridge_date")
    IN  [n \in 1..Len(a) |-> a[Len(a) + 1 - n]]

SortRecommendations(rs) == StableSort(rs, "bridge_date")

\* lines 383-392: the resolved list arrives, the per-call state is created
BridgeInit ==
    /\ pc = "bridge_init"
    /\ pc' = "bridge"
    /\ holiday_dates' = HolidayDates(holidays)
    /\ recommendations' = << >>
    /\ seen_bridge_dates' = NewSeenBridgeDates(seen_bridge_dates)
    /\ j' = 1
    /\ UNCHANGED << op, canton, year, entries, k, holidays, result, log >>

\* lines 398-413: holiday on a Tuesday, take the Monday
BridgeTuesday ==
    /\ pc = "bridge"
    /\ j <= Len(holidays)
    /\ Branch(weekday(holidays[j].date)) = "tuesday"
    /\ LET h == holidays[j]
           bridge == TuesdayBridge(h.date)
       IN  IF TuesdayAccepts(bridge, seen_bridge_dates, holiday_dates)
           THEN /\ seen_bridge_dates' = seen_bridge_dates \cup {bridge}
                /\ recommendations' = Append(recommendations,
                       Recommendation(h, bridge,
                                      WEEKDAYS_DE[weekday(bridge) + 1], 4))
           ELSE UNCHANGED << seen_bridge_dates, recommendations >>
    /\ j' = j + 1
    /\ UNCHANGED << pc, op, canton, year, entries, k, holidays, holiday_dates,
                    result, log >>

\* lines 415-430: holiday on a Thursday, take the Friday
BridgeThursday ==
    /\ pc = "bridge"
    /\ j <= Len(holidays)
    /\ Branch(weekday(holidays[j].date)) = "thursday"
    /\ LET h == holidays[j]
           bridge == ThursdayBridge(h.date)
       IN  IF ThursdayAccepts(bridge, seen_bridge_dates, holiday_dates)
           THEN /\ seen_bridge_dates' = seen_bridge_dates \cup {bridge}
                /\ recommendations' = Append(recommendations,
                       Recommendation(h, bridge,
                                      WEEKDAYS_DE[weekday(bridge) + 1], 4))
           ELSE UNCHANGED << seen_bridge_dates, recommendations >>
    /\ j' = j + 1
    /\ UNCHANGED << pc, op, canton, year, entries, k, holidays, holiday_dates,
                    result, log >>

\* lines 432-450: holiday on a Wednesday, take Monday and Tuesday
BridgeWednesday ==
    /\ pc = "bridge"
    /\ j <= Len(holidays)
    /\ Branch(weekday(holidays[j].date)) = "wednesday"
    /\ LET h == holidays[j]
           b == WednesdayBridges(h.date)
       IN  IF WednesdayAccepts(b.before, b.before2, seen_bridge_dates,
                               holiday_dates)
           THEN /\ seen_bridge_dates' =
                       seen_bridge_dates \cup {b.before, b.before2}
                /\ recommendations' = Append(recommendations,
                       Recommendation(h, b.before2, "Montag + Dienstag", 5))
           ELSE UNCHANGED << seen_bridge_dates, recommendations >>
    /\ j' = j + 1
    /\ UNCHANGED << pc, op, canton, year, entries, k, holidays, holiday_dates,
                    result, log >>

\* a holiday on any other weekday: no branch of the if/elif chain is taken
BridgeSkip ==
    /\ pc = "bridge"
    /\ j <= Len(holidays)
    /\ Branch(weekday(holidays[j].date)) = "none"
    /\ j' = j + 1
    /\ UNCHANGED << pc, op, canton, year, entries, k, holidays, holiday_dates,
                    recommendations, seen_bridge_dates, result, log >>

\* lines 452-453: sort by bridge_date and return
BridgeReturn ==
    /\ pc = "bridge"
    /\ j > Len(holidays)
    /\ recommendations' = SortRecommendations(recommendations)
    /\ pc' = "done"
    /\ result' = Returned("recommendations", recommendations')
    /\ UNCHANGED << op, canton, year, entries, k, holidays, j, holiday_dates,
                    seen_bridge_dates, log >>

-----------------------------------------------------------------------------
(* The caller                                                              *)

\* the caller keeps the output and calls again with the same arguments;
\* the finished call's frame is gone, and nothing in the code clears
\* whatever it may have left behind
Repeat(o) ==
    /\ pc = "done"
    /\ Len(log) + 1 < MaxCalls
    /\ log' = Append(log, [op |-> op, result |-> result])
    /\ pc' = "validate"
    /\ op' = o
    /\ result' = NoResult
    /\ UNCHANGED << canton, year, entries, k, holidays, j, holiday_dates,
                    recommendations, seen_bridge_dates >>

\* the caller is done with this (canton, year)
Return ==
    /\ pc = "done"
    /\ pc' = "idle"
    /\ op' = "none"
    /\ canton' = "none"
    /\ year' = 0
    /\ entries' = << >>
    /\ k' = 1
    /\ j' = 1
    /\ holidays' = << >>
    /\ holiday_dates' = {}
    /\ recommendations' = << >>
    /\ seen_bridge_dates' = {}
    /\ result' = NoResult
    /\ log' = << >>

Init ==
    /\ pc = "idle"
    /\ op = "none"
    /\ canton = "none"
    /\ year = 0
    /\ entries = << >>
    /\ k = 1
    /\ j = 1
    /\ holidays = << >>
    /\ holiday_dates = {}
    /\ recommendations = << >>
    /\ seen_bridge_dates = {}
    /\ result = NoResult
    /\ log = << >>

Next ==
    \/ \E o \in Ops, c \in CantonInputs, y \in YearInputs : Call(o, c, y)
    \/ Validate
    \/ ResolveEntry
    \/ ResolveReturn
    \/ BridgeInit
    \/ BridgeTuesday
    \/ BridgeThursday
    \/ BridgeWednesday
    \/ BridgeSkip
    \/ BridgeReturn
    \/ \E o \in Ops : Repeat(o)
    \/ Return

Spec == Init /\ [][Next]_vars

-----------------------------------------------------------------------------
(* calculate_bridge_days over any date-sorted holiday list: the state at   *)
(* line 383 when get_holidays has returned a list the reference catalog    *)
(* does not produce (coinciding dates, holidays on adjacent days).         *)

\* the window starts on Monday 2024-01-01
AnyBase == date(2024, 1, 1)
AnyDates == AnyBase..(AnyBase + AnyWindow - 1)
AnyNames == << "A", "B", "C", "D", "E", "F", "G", "H" >>

AnyLists ==
    { [n \in 1..Len(ds) |-> Holiday(AnyNames[n], ds[n])] :
        ds \in { s \in UNION { [1..n -> AnyDates] : n \in 0..MaxAnyHolidays } :
                    \A n \in 1..(Len(s) - 1) : s[n] <= s[n + 1] } }

InitAny ==
    /\ pc = "bridge_init"
    /\ op = "calculate_bridge_days"
    /\ canton = "any"
    /\ year = 2024
    /\ entries = << >>
    /\ k = 1
    /\ j = 1
    /\ holidays \in AnyLists
    /\ holiday_dates = {}
    /\ recommendations = << >>
    /\ seen_bridge_dates = {}
    /\ result = NoResult
    /\ log = << >>

NextAny ==
    \/ BridgeInit
    \/ BridgeTuesday
    \/ BridgeThursday
    \/ BridgeWednesday
    \/ BridgeSkip
    \/ BridgeReturn

SpecAny == InitAny /\ [][NextAny]_vars

-----------------------------------------------------------------------------
(* get_holidays over any catalog list of fixed dates: the state at line    *)
(* 351 for a table entry in which several rules give the same date, which  *)
(* the reference table never does.                                         *)

TieCatalogs ==
    { [n \in 1..Len(ds) |-> Entry(AnyNames[n], Fixed(1, ds[n]))] :
        ds \in UNION { [1..n -> 1..TieDays] : n \in 0..MaxTieEntries } }

InitTies ==
    /\ pc = "resolve"
    /\ op = "get_holidays"
    /\ canton = "any"
    /\ year = 2024
    /\ entries \in TieCatalogs
    /\ k = 1
    /\ j = 1
    /\ holidays = << >>
    /\ holiday_dates = {}
    /\ recommendations = << >>
    /\ seen_bridge_dates = {}
    /\ result = NoResult
    /\ log = << >>

NextTies ==
    \/ ResolveEntry
    \/ ResolveReturn

SpecTies == InitTies /\ [][NextTies]_vars

-----------------------------------------------------------------------------
(* Vocabulary of the properties                                            *)

\* the calendar dates a recommendation asks to take off: the bridge_date,
\* and for a Wednesday holiday also the Tuesday after it
BridgeDays(r) ==
    IF weekday(r.holiday_date) = 2
    THEN {r.bridge_date, r.bridge_date + 1}
    ELSE {r.bridge_date}

\* bridge days of the recommendations accepted so far
Claimed(rs) == UNION {BridgeDays(rs[n]) : n \in 1..Len(rs)}

InBridgeLoop == op = "calculate_bridge_days" /\ pc \in {"bridge", "done"}
ReturnedHolidays == pc = "done" /\ result.kind = "holidays"
ReturnedRecommendations == pc = "done" /\ result.kind = "recommendations"
SupportedInputs == canton \in DOMAIN CANTONS /\ year \in 2020..2035

\* C1: for every supported (canton, year), no bridge day of a recommendation
\* of calculate_bridge_days (for a Wednesday holiday: neither the Monday nor
\* the Tuesday) is a holiday date of get_holidays(canton, year).
C1_BridgeNeverHoliday ==
    (InBridgeLoop /\ SupportedInputs) =>
        \A n \in 1..Len(recommendations) :
            \A b \in BridgeDays(recommendations[n]) :
                \A m \in 1..Len(holidays) : holidays[m].date # b

\* a finished call that recommends a Monday+Tuesday pair and whose holiday
\* list has a Tuesday holiday right behind a Monday holiday
C1_Witness ==
    /\ ReturnedRecommendations
    /\ SupportedInputs
    /\ \E n \in 1..Len(result.value) : result.value[n].free_days = 5
    /\ \E m \in 1..Len(holidays) :
          /\ weekday(holidays[m].date) = 1
          /\ holidays[m].date - 1 \in HolidayDates(holidays)

\* C2: within one calculate_bridge_days call no calendar date is a bridge
\* day of two recommendations, for any date-sorted holiday list, also one in
\* which holidays share a date.
C2_BridgeDaysUnique ==
    InBridgeLoop =>
        \A m, n \in 1..Len(recommendations) :
            m # n => BridgeDays(recommendations[m])
                       \cap BridgeDays(recommendations[n]) = {}

\* two holidays on the same Wednesday were processed; one pair was accepted
C2_Witness ==
    /\ pc = "done"
    /\ op = "calculate_bridge_days"
    /\ \E m, n \in 1..Len(holidays) :
          /\ m # n
          /\ holidays[m].date = holidays[n].date
          /\ weekday(holidays[m].date) = 2
    /\ \E n \in 1..Len(result.value) : result.value[n].free_days = 5

\* C3: every recommendation has free_days in {4, 5} fixed by the weekday of
\* its holiday: Tuesday -> the Monday before, 4; Thursday -> the Friday
\* after, 4; Wednesday -> the Monday two days before, 5.
C3_WeekdayRule ==
    InBridgeLoop =>
        \A n \in 1..Len(recommendations) :
            LET r == recommendations[n]
                wd == weekday(r.holiday_date)
            IN  \/ /\ wd = 1
                   /\ r.bridge_date = r.holiday_date - 1
                   /\ weekday(r.bridge_date) = 0
                   /\ r.free_days = 4
                \/ /\ wd = 3
                   /\ r.bridge_date = r.holiday_date + 1
                   /\ weekday(r.bridge_date) = 4
                   /\ r.free_days = 4
                \/ /\ wd = 2
                   /\ r.bridge_date = r.holiday_date - 2
                   /\ weekday(r.bridge_date) = 0
                   /\ r.free_days = 5

\* one returned list holds a Tuesday, a Thursday and a Wednesday case
C3_Witness ==
    /\ ReturnedRecommendations
    /\ \A wd \in {1, 2, 3} :
          \E n \in 1..Len(result.value) :
              weekday(result.value[n].holiday_date) = wd

\* C4: a holiday on a Monday, Friday, Saturday or Sunday produces no
\* recommendation.
C4_NoRecommendationOffDays ==
    InBridgeLoop =>
        \A m \in 1..(IF pc = "done" THEN Len(holidays) ELSE j - 1) :
            weekday(holidays[m].date) \in {0, 4, 5, 6} =>
                \A n \in 1..Len(recommendations) :
                    /\ recommendations[n].holiday_date # holidays[m].date
                    /\ weekday(recommendations[n].holiday_date)
                           \notin {0, 4, 5, 6}

\* a finished call whose list has holidays on all four of these weekdays,
\* and which did recommend something
C4_Witness ==
    /\ ReturnedRecommendations
    /\ Len(result.value) > 0
    /\ \A wd \in {0, 4, 5, 6} :
          \E m \in 1..Len(holidays) : weekday(holidays[m].date) = wd

\* C5: for every supported (canton, year) get_holidays returns a non-empty
\* list, in non-decreasing date order, without two equal (name, date) pairs.
C5_HolidaysSortedDistinct ==
    (ReturnedHolidays /\ SupportedInputs) =>
        /\ Len(result.value) > 0
        /\ \A n \in 1..(Len(result.value) - 1) :
              result.value[n].date <= result.value[n + 1].date
        /\ \A m, n \in 1..Len(result.value) :
              m # n => << result.value[m].name, result.value[m].date >>
                         # << result.value[n].name, result.value[n].date >>

\* a returned list whose catalog order is not its date order
C5_Witness ==
    /\ ReturnedHolidays
    /\ SupportedInputs
    /\ \E a, b \in 1..Len(CANTON_HOLIDAYS[canton]) :
          /\ a < b
          /\ ResolveSpec(CANTON_HOLIDAYS[canton][a].spec, year)
                > ResolveSpec(CANTON_HOLIDAYS[canton][b].spec, year)

\* C6: get_holidays and calculate_bridge_days raise ValueError, and return
\* nothing, exactly when the canton is not one of the 26 codes or the year is
\* outside 2020..2035 (2020 and 2035 are accepted); the check precedes the
\* evaluation of any catalog entry, so no partial result exists.
C6_InvalidInputRejected ==
    LET invalid == canton \notin DOMAIN CANTONS \/ year < 2020 \/ year > 2035
    IN  /\ (pc = "done" /\ op \in Ops) =>
              /\ (result.kind = "ValueError") <=> invalid
              /\ ~invalid => result.kind =
                     (IF op = "get_holidays" THEN "holidays"
                                             ELSE "recommendations")
        /\ (pc # "idle" /\ op \in Ops /\ invalid) =>
              /\ pc \in {"validate", "done"}
              /\ holidays = << >>
              /\ recommendations = << >>
              /\ result.value = << >>

\* calculate_bridge_days("XX", 2036) has raised
C6_Witness ==
    /\ pc = "done"
    /\ op = "calculate_bridge_days"
    /\ canton = "XX"
    /\ year = 2036
    /\ result.kind = "ValueError"

\* C7: for every year Y in 2020..2035, get_easter(Y) lies between March 22
\* and April 25 of Y inclusive and is a Sunday.
C7_EasterRange ==
    (year \in 2020..2035 /\ pc # "idle") =>
        /\ get_easter(year) >= date(year, 3, 22)
        /\ get_easter(year) <= date(year, 4, 25)
        /\ weekday(get_easter(year)) = 6
        /\ \A n \in 1..Len(holidays) :
              holidays[n].name = "Ostersonntag" =>
                  /\ holidays[n].date = get_easter(year)
                  /\ holidays[n].weekday = "Sonntag"

\* a returned list carries Easter Sunday; the year's Easter is in April
C7_Witness ==
    /\ ReturnedHolidays
    /\ year \in 2020..2035
    /\ \E n \in 1..Len(result.value) :
          /\ result.value[n].name = "Ostersonntag"
          /\ result.value[n].date = get_easter(year)
          /\ result.value[n].date >= date(year, 4, 1)

\* C8: processing the holidays in ascending date order, a Tuesday or
\* Thursday candidate is rejected when its bridge day is a holiday date or
\* already claimed, a Wednesday pair when its Monday or its Tuesday is; and a
\* recommendation once accepted stays (first claim wins).
C8_Step ==
    (pc = "bridge" /\ j <= Len(holidays)) =>
        LET h == holidays[j]
            wd == weekday(h.date)
            taken == HolidayDates(holidays) \cup Claimed(recommendations)
            rejected == recommendations' = recommendations
        IN  /\ j > 1 => holidays[j - 1].date <= h.date
            /\ (wd = 1 /\ h.date - 1 \in taken) => rejected
            /\ (wd = 3 /\ h.date + 1 \in taken) => rejected
            /\ (wd = 2 /\ {h.date - 1, h.date - 2} \cap taken # {})
                  => rejected
            /\ \A n \in 1..Len(recommendations) :
                  \E m \in 1..Len(recommendations') :
                      recommendations'[m] = recommendations[n]
            /\ pc' = "bridge" =>
                  SubSeq(recommendations', 1, Len(recommendations))
                      = recommendations

C8_ConflictPolicy == [][C8_Step]_vars

\* a Thursday holiday was skipped because its Friday had been claimed by an
\* earlier holiday, and a Wednesday holiday because its days had been
Skipped(m) ==
    \A n \in 1..Len(recommendations) :
        recommendations[n].holiday_name # holidays[m].name

C8_Witness ==
    /\ pc = "done"
    /\ op = "calculate_bridge_days"
    /\ \E m \in 1..Len(holidays) :
          /\ weekday(holidays[m].date) = 3
          /\ holidays[m].date + 1 \notin HolidayDates(holidays)
          /\ holidays[m].date + 1 \in Claimed(recommendations)
          /\ Skipped(m)
    /\ \E m \in 1..Len(holidays) :
          /\ weekday(holidays[m].date) = 2
          /\ {holidays[m].date - 1, holidays[m].date - 2}
                 \cap HolidayDates(holidays) = {}
          /\ holidays[m].date - 2 \in Claimed(recommendations)
          /\ Skipped(m)

\* C9: a second call of get_holidays, or of calculate_bridge_days, with the
\* same (canton, year) returns what the first returned, whatever was called
\* in between.
C9_Idempotent ==
    pc = "done" =>
        \A n \in 1..Len(log) : log[n].op = op => log[n].result = result

\* calculate_bridge_days returned a non-empty list for the second time
C9_Witness ==
    /\ ReturnedRecommendations
    /\ Len(result.value) > 0
    /\ \E n \in 1..Len(log) : log[n].op = "calculate_bridge_days"

\* C10: the list calculate_bridge_days returns is in ascending order of
\* bridge_date, a Wednesday recommendation counting with its Monday.
C10_SortedByBridgeDate ==
    ReturnedRecommendations =>
        \A n \in 1..(Len(result.value) - 1) :
            /\ result.value[n].bridge_date <= result.value[n + 1].bridge_date
            /\ \A b \in BridgeDays(result.value[n]) :
                  result.value[n].bridge_date <= b

\* a returned list of three or more with a Wednesday recommendation that is
\* neither first nor last
C10_Witness ==
    /\ ReturnedRecommendations
    /\ \E n \in 2..(Len(result.value) - 1) : result.value[n].free_days = 5

\* the entry of a holiday list with the given name and date (ordinal)
HasHoliday(hs, name, d, wdname) ==
    \E n \in 1..Len(hs) :
        hs[n].name = name /\ hs[n].date = d /\ hs[n].weekday = wdname

HasRecommendation(rs, name, bridge, wdname, free) ==
    \E n \in 1..Len(rs) :
        /\ rs[n].holiday_name = name
        /\ rs[n].bridge_date = bridge
        /\ rs[n].bridge_weekday = wdname
        /\ rs[n].free_days = free

\* C11: for ZH and 2024, Easter Sunday is 2024-03-31 (ordinal 738976),
\* Karfreitag 2024-03-29 (738974), Auffahrt 2024-05-09 (739015), a Thursday,
\* and calculate_bridge_days recommends Friday 2024-05-10 (739016) for
\* Auffahrt with free_days = 4.
C11_Zurich2024 ==
    (canton = "ZH" /\ year = 2024) =>
        /\ ReturnedHolidays =>
              /\ HasHoliday(result.value, "Ostersonntag", 738976, "Sonntag")
              /\ HasHoliday(result.value, "Karfreitag", 738974, "Freitag")
              /\ HasHoliday(result.value, "Auffahrt (Christi Himmelfahrt)",
                            739015, "Donnerstag")
        /\ ReturnedRecommendations =>
              /\ HasRecommendation(result.value,
                     "Auffahrt (Christi Himmelfahrt)", 739016, "Freitag", 4)
              /\ \E n \in 1..Len(result.value) :
                    /\ result.value[n].holiday_date = 739015
                    /\ result.value[n].bridge_date = date(2024, 5, 10)
              /\ get_easter(year) = 738976

\* calculate_bridge_days("ZH", 2024) has returned, with Auffahrt in its list
C11_Witness ==
    /\ ReturnedRecommendations
    /\ canton = "ZH"
    /\ year = 2024
    /\ HasHoliday(holidays, "Auffahrt (Christi Himmelfahrt)", 739015,
                  "Donnerstag")
    /\ HasRecommendation(result.value, "Auffahrt (Christi Himmelfahrt)",
                         739016, "Freitag", 4)

\* C12: for GE and 2024, Bundesfeiertag, 2024-08-01 (ordinal 739099), is a
\* Thursday and calculate_bridge_days recommends 2024-08-02 (739100) for it
\* with free_days = 4.
C12_Geneva2024 ==
    (canton = "GE" /\ year = 2024) =>
        /\ weekday(date(2024, 8, 1)) = 3
        /\ date(2024, 8, 1) = 739099
        /\ ReturnedHolidays =>
              HasHoliday(result.value, "Bundesfeiertag", 739099, "Donnerstag")
        /\ ReturnedRecommendations =>
              /\ HasRecommendation(result.value, "Bundesfeiertag", 739100,
                                   "Freitag", 4)
              /\ \E n \in 1..Len(result.value) :
                    /\ result.value[n].holiday_name = "Bundesfeiertag"
                    /\ result.value[n].holiday_date = 739099

\* calculate_bridge_days("GE", 2024) has returned the recommendation
C12_Witness ==
    /\ ReturnedRecommendations
    /\ canton = "GE"
    /\ year = 2024
    /\ HasRecommendation(result.value, "Bundesfeiertag", 739100, "Freitag", 4)

\* a day nobody works when the recommendation r is followed: a Saturday, a
\* Sunday, a holiday of the list, or a bridge day of r
FreeDay(d, r, hdates) ==
    weekday(d) \in {5, 6} \/ d \in hdates \/ d \in BridgeDays(r)

RECURSIVE FreeRun(_, _, _, _)
\* number of consecutive free days from d on, walking in direction step
FreeRun(d, step, r, hdates) ==
    IF FreeDay(d, r, hdates) THEN 1 + FreeRun(d + step, step, r, hdates)
    ELSE 0

\* length of the maximal run of free days around the holiday of r
RunLength(r, hdates) ==
    FreeRun(r.holiday_date - 1, -1, r, hdates) + 1
        + FreeRun(r.holiday_date + 1, 1, r, hdates)

\* C13: free_days of every recommendation is the total number of
\* consecutive free days: the length of the maximal run of calendar days
\* around the holiday that are Saturdays, Sundays, holidays of the canton
\* and year, or bridge days of that recommendation.
C13_FreeDaysIsRunLength ==
    (ReturnedRecommendations /\ SupportedInputs) =>
        \A n \in 1..Len(result.value) :
            result.value[n].free_days
                = RunLength(result.value[n], HolidayDates(holidays))

Shown(seq) == {seq[n] : n \in 1..Len(seq)}

\* C14: the invalid-input error carries the offending value and the valid
\* set or range: for an unknown canton the code and the valid codes, for an
\* out-of-range year the year and the bounds 2020 and 2035; when both are
\* invalid only the canton error is reported.
C14_ErrorCarriesValueAndRange ==
    (pc = "done" /\ result.kind = "ValueError") =>
        LET e == result.error IN
        /\ canton \notin DOMAIN CANTONS =>
              /\ e.kind = "canton"
              /\ canton \in Shown(e.canton_shown)
              /\ e.codes_shown = DOMAIN CANTONS
              /\ e.years_shown = << >>
        /\ canton \in DOMAIN CANTONS =>
              /\ e.kind = "year"
              /\ year \in Shown(e.years_shown)
              /\ {2020, 2035} \subseteq Shown(e.years_shown)

\* position of a name in the list get_holidays walked
CatalogPosition(name) ==
    CHOOSE n \in 1..Len(entries) : entries[n].name = name

\* C15: get_holidays returns entries that resolve to the same date in their
\* catalog order, and entries with different dates in date order whatever
\* their catalog order.
C15_TiesKeepCatalogOrder ==
    ReturnedHolidays =>
        /\ Len(result.value) = Len(entries)
        /\ \A m, n \in 1..Len(result.value) :
              m < n =>
                  \/ result.value[m].date < result.value[n].date
                  \/ /\ result.value[m].date = result.value[n].date
                     /\ CatalogPosition(result.value[m].name)
                            < CatalogPosition(result.value[n].name)

\* a returned list with two entries on one date, behind an entry that the
\* catalog lists first but that falls later
C15_Witness ==
    /\ ReturnedHolidays
    /\ \E m \in 1..(Len(result.value) - 1) :
          result.value[m].date = result.value[m + 1].date
    /\ \E n \in 2..Len(result.value) :
          CatalogPosition(result.value[n].name) = 1

HolidaysResolved ==
    /\ pc \in {"bridge_init", "bridge", "done"}
    /\ result.kind # "ValueError"
    /\ SupportedInputs

\* C16: in the reference data, for every canton and every year 2020..2035,
\* no two holidays of the resolved list fall on the same date.
C16_NoCoincidingHolidays ==
    HolidaysResolved =>
        /\ \A m, n \in 1..Len(holidays) :
              m # n => holidays[m].date # holidays[n].date
        /\ Cardinality(HolidayDates(holidays)) = Len(entries)

\* Glarus in a year in which Naefelser Fahrt is the day before Karfreitag
C16_Witness ==
    /\ ReturnedHolidays
    /\ canton = "GL"
    /\ \E m \in 1..(Len(result.value) - 1) :
          /\ result.value[m].name = "Naefelser Fahrt"
          /\ result.value[m + 1].name = "Karfreitag"
          /\ result.value[m + 1].date = result.value[m].date + 1

\* C17: the catalog covers exactly the 26 canton codes (the keys of
\* CANTON_HOLIDAYS are the keys of CANTONS) and every list is non-empty, so
\* an accepted canton always has a catalog list and get_holidays fails with
\* nothing but the invalid-input error.
C17_CatalogCoversCantons ==
    /\ DOMAIN CANTON_HOLIDAYS = DOMAIN CANTONS
    /\ Cardinality(DOMAIN CANTONS) = 26
    /\ \A c \in DOMAIN CANTON_HOLIDAYS : Len(CANTON_HOLIDAYS[c]) > 0
    /\ (pc = "resolve" /\ op \in Ops /\ canton \in CantonInputs) =>
          /\ canton \in DOMAIN CANTON_HOLIDAYS
          /\ entries = CANTON_HOLIDAYS[canton]
          /\ Len(entries) > 0
    /\ (pc = "done" /\ op \in Ops) =>
          /\ result.kind \in {"holidays", "recommendations", "ValueError"}
          /\ result.kind = "ValueError" =>
                result.error = validate_inputs(canton, year)
          /\ SupportedInputs => result.kind # "ValueError"

\* get_holidays has walked the whole list of Ticino, the longest with a
\* canton-specific fixed date
C17_Witness ==
    /\ ReturnedHolidays
    /\ canton = "TI"
    /\ Len(result.value) = Len(CANTON_HOLIDAYS["TI"])
    /\ \E n \in 1..Len(result.value) :
          result.value[n].name = "San Pietro e Paolo"

\* C18: every recommendation comes from exactly one holiday: its
\* (holiday_name, holiday_date) is an entry of the resolved list, every entry
\* gives at most one recommendation, and so there are never more
\* recommendations than holidays.
C18_OneHolidayEach ==
    InBridgeLoop =>
        /\ \A n \in 1..Len(recommendations) :
              \E m \in 1..Len(holidays) :
                  /\ holidays[m].name = recommendations[n].holiday_name
                  /\ holidays[m].date = recommendations[n].holiday_date
        /\ \A m \in 1..Len(holidays) :
              Cardinality({ n \in 1..Len(recommendations) :
                  /\ recommendations[n].holiday_name = holidays[m].name
                  /\ recommendations[n].holiday_date = holidays[m].date })
                <= 1
        /\ Len(recommendations) <= Len(holidays)
        /\ pc = "bridge" => Len(recommendations) <= j - 1

\* a returned list of at least three recommendations, fewer than holidays
C18_Witness ==
    /\ ReturnedRecommendations
    /\ Len(result.value) >= 3
    /\ Len(result.value) < Len(holidays)

\* the date the resolved list gives the named holiday, if it has it
DatesOf(hs, name) == {hs[n].date : n \in {m \in 1..Len(hs) : hs[m].name = name}}

\* C19: for every year 2020..2035, _bettag is the third Sunday of September
\* (a Sunday, day 15..21), _bettag_monday the Monday after it (day 16..22),
\* _jeune_genevois the Thursday after the first Sunday of September (a
\* Thursday, day 5..11) and _naefelser_fahrt the first Thursday of April (a
\* Thursday, day 1..7, April 1 itself when that is a Thursday).
C19_MovableRules ==
    (year \in 2020..2035 /\ pc # "idle") =>
        /\ weekday(_bettag(year)) = 6
        /\ _bettag(year) \in date(year, 9, 15)..date(year, 9, 21)
        /\ weekday(_bettag_monday(year)) = 0
        /\ _bettag_monday(year) = _bettag(year) + 1
        /\ _bettag_monday(year) \in date(year, 9, 16)..date(year, 9, 22)
        /\ weekday(_jeune_genevois(year)) = 3
        /\ _jeune_genevois(year) \in date(year, 9, 5)..date(year, 9, 11)
        /\ \E d \in date(year, 9, 1)..date(year, 9, 7) :
              weekday(d) = 6 /\ _jeune_genevois(year) = d + 4
        /\ weekday(_naefelser_fahrt(year)) = 3
        /\ _naefelser_fahrt(year) \in date(year, 4, 1)..date(year, 4, 7)
        /\ weekday(date(year, 4, 1)) = 3 =>
              _naefelser_fahrt(year) = date(year, 4, 1)
        /\ pc \in {"resolve", "bridge_init", "bridge", "done"} =>
              /\ DatesOf(holidays, "Bettagsmontag")
                     \subseteq {_bettag_monday(year)}
              /\ DatesOf(holidays, "Jeune genevois")
                     \subseteq {_jeune_genevois(year)}
              /\ DatesOf(holidays, "Naefelser Fahrt")
                     \subseteq {_naefelser_fahrt(year)}

\* Glarus in a year whose April 1 is a Thursday: Naefelser Fahrt is April 1
C19_Witness ==
    /\ ReturnedHolidays
    /\ canton = "GL"
    /\ year \in 2020..2035
    /\ weekday(date(year, 4, 1)) = 3
    /\ HasHoliday(result.value, "Naefelser Fahrt", date(year, 4, 1),
                  "Donnerstag")

\* C20: for every supported (canton, year), every bridge day recommended by
\* calculate_bridge_days (the bridge_date and, for a Wednesday holiday, the
\* Tuesday after it) lies inside the requested calendar year.
C20_BridgeInsideYear ==
    (InBridgeLoop /\ SupportedInputs) =>
        \A n \in 1..Len(recommendations) :
            \A b \in BridgeDays(recommendations[n]) :
                /\ b >= date(year, 1, 1)
                /\ b <= date(year, 12, 31)

\* the calendar year a date near the requested year falls in
YearOf(d) ==
    CHOOSE y \in (year - 1)..(year + 1) :
        d >= date(y, 1, 1) /\ d <= date(y, 12, 31)

\* the dates the canton's catalog rules give for the year y
CatalogDates(c, y) ==
    { ResolveSpec(CANTON_HOLIDAYS[c][n].spec, y) :
        n \in 1..Len(CANTON_HOLIDAYS[c]) }

\* C21: no recommended bridge day is a public holiday of the same canton in
\* the year the bridge day itself falls in.
C21_BridgeNoHolidayOfItsYear ==
    (InBridgeLoop /\ SupportedInputs) =>
        \A n \in 1..Len(recommendations) :
            \A b \in BridgeDays(recommendations[n]) :
                b \notin CatalogDates(canton, YearOf(b))


\* C22: calculate_bridge_days never returns an empty list for a supported
\* (canton, year): the canton's catalog contains Auffahrt, Easter + 39 days is
\* a Thursday, and the result holds a recommendation for Auffahrt whose bridge
\* day is the Friday Easter + 40 days, with 4 free days.
C22_AuffahrtAlwaysRecommended ==
    (ReturnedRecommendations /\ SupportedInputs) =>
        /\ \E n \in 1..Len(CANTON_HOLIDAYS[canton]) :
               CANTON_HOLIDAYS[canton][n].name = "Auffahrt (Christi Himmelfahrt)"
        /\ (get_easter(year) + 39 - 1) % 7 = 3
        /\ Len(result.value) > 0
        /\ HasRecommendation(result.value, "Auffahrt (Christi Himmelfahrt)",
                             get_easter(year) + 40, "Freitag", 4)

\* a supported call whose only recommendation is the one for Auffahrt
C22_Witness ==
    /\ ReturnedRecommendations
    /\ SupportedInputs
    /\ Len(result.value) = 1
    /\ result.value[1].holiday_name = "Auffahrt (Christi Himmelfahrt)"
    /\ result.value[1].bridge_date = get_easter(year) + 40


\* how many elements of a list of records carry the name
NameCount(seq, name) ==
    Cardinality({ n \in 1..Len(seq) : seq[n].name = name })

\* the German weekday name of a date, counted from Monday 0001-01-01
\* (ordinal 1): Montag = 0 .. Sonntag = 6
GermanWeekday(d) ==
    CASE (d - 1) % 7 = 0 -> "Montag"
      [] (d - 1) % 7 = 1 -> "Dienstag"
      [] (d - 1) % 7 = 2 -> "Mittwoch"
      [] (d - 1) % 7 = 3 -> "Donnerstag"
      [] (d - 1) % 7 = 4 -> "Freitag"
      [] (d - 1) % 7 = 5 -> "Samstag"
      [] (d - 1) % 7 = 6 -> "Sonntag"

\* C23: for every supported (canton, year), get_holidays returns exactly one
\* holiday per catalog entry of the canton (the same multiset of names), every
\* holiday's date lies in the requested year, and its weekday field is the
\* German name of the date's weekday, Monday first.
C23_OnePerEntryInYearWeekday ==
    (ReturnedHolidays /\ SupportedInputs) =>
        LET hs == result.value
            cat == CANTON_HOLIDAYS[canton]
        IN  /\ Len(hs) = Len(cat)
            /\ \A n \in 1..Len(cat) :
                   NameCount(hs, cat[n].name) = NameCount(cat, cat[n].name)
            /\ \A n \in 1..Len(hs) :
                   /\ NameCount(cat, hs[n].name) > 0
                   /\ hs[n].date >= date(year, 1, 1)
                   /\ hs[n].date <= date(year, 12, 31)
                   /\ hs[n].weekday = GermanWeekday(hs[n].date)

\* a returned list with holidays on all seven weekdays
C23_Witness ==
    /\ ReturnedHolidays
    /\ SupportedInputs
    /\ Len(result.value) = Len(CANTON_HOLIDAYS[canton])
    /\ \A wd \in 0..6 :
           \E n \in 1..Len(result.value) : weekday(result.value[n].date) = wd
====
